---------------------------- MODULE Spec2Model ----------------------------
(***************************************************************************)
(* A model of ssimpl/munge.py: mass_function(mass, volume, bins,           *)
(* range=None, return_edges=False, **kwargs).                              *)
(*                                                                         *)
(* One call is one behaviour: Init draws the arguments, and each action is *)
(* one statement group of the function body (named by its first line).     *)
(* Reals are exact rationals <<numerator, denominator>> in lowest terms;   *)
(* arrays are sequences; objects live in `heap` and local names hold       *)
(* references, so that rebinding a name and writing through it differ.     *)
(***************************************************************************)
EXTENDS Integers, Sequences, FiniteSets, TLC

(***************************************************************************)
(* Bounds of the explored inputs.                                          *)
(***************************************************************************)
MaxLen == 3
MaxVal == 3
MaxBins == 3

VARIABLES
  heap,          \* objects: m0 b0 r0 k0 are the caller's, m1 b1 are made by the call
  mass,          \* local name `mass`: a reference into heap
  bins,          \* local name `bins`: a reference into heap
  kwargs,        \* local dict `kwargs` (a fresh dict per call)
  volume,        \* argument `volume`
  return_edges,  \* argument `return_edges`
  pc,            \* the line the call is at, or "returned" / "raised"
  log,           \* messages handed to astropy's log
  calls,         \* calls made to the resolvers and to np.histogram
  vals, edges, width, centers,   \* locals of lines 65-69
  ret,           \* the returned value
  exc            \* the raised exception

vars == <<heap, mass, bins, kwargs, volume, return_edges, pc, log, calls,
          vals, edges, width, centers, ret, exc>>

----------------------------------------------------------------------------
(* Exact rational arithmetic standing for the float arithmetic.            *)

Abs(x) == IF x < 0 THEN -x ELSE x

Sign(x) == IF x < 0 THEN -1 ELSE IF x = 0 THEN 0 ELSE 1

RECURSIVE GCD(_, _)
GCD(a, b) == IF b = 0 THEN a ELSE GCD(b, a % b)

\* n/d in lowest terms, d = 0 giving the IEEE values inf (<<1,0>>), -inf, nan (<<0,0>>)
Rat(n, d) ==
  IF d = 0 THEN <<Sign(n), 0>>
  ELSE LET g == GCD(Abs(n), Abs(d))
       IN  <<(Sign(d) * n) \div g, Abs(d) \div g>>

RInt(n) == <<n, 1>>
RAdd(a, b) == Rat(a[1] * b[2] + b[1] * a[2], a[2] * b[2])
RSub(a, b) == Rat(a[1] * b[2] - b[1] * a[2], a[2] * b[2])
RMul(a, b) == Rat(a[1] * b[1], a[2] * b[2])
RDiv(a, b) == Rat(a[1] * b[2], a[2] * b[1])
RLt(a, b) == a[1] * b[2] < b[1] * a[2]
RLe(a, b) == a[1] * b[2] <= b[1] * a[2]
RFloor(a) == a[1] \div a[2]
RCeil(a) == -((-a[1]) \div a[2])

RECURSIVE RSum(_)
RSum(s) == IF s = <<>> THEN RInt(0) ELSE RAdd(s[1], RSum(Tail(s)))

SeqMin(s) == CHOOSE x \in {s[i] : i \in DOMAIN s} : \A i \in DOMAIN s : x <= s[i]
SeqMax(s) == CHOOSE x \in {s[i] : i \in DOMAIN s} : \A i \in DOMAIN s : x >= s[i]
Distinct(s) == {s[i] : i \in DOMAIN s}


RECURSIVE SortSet(_)
SortSet(S) ==
  IF S = {} THEN <<>>
  ELSE LET m == CHOOSE x \in S : \A y \in S : x <= y
       IN  <<m>> \o SortSet(S \ {m})

----------------------------------------------------------------------------
(* numpy, as line 65 uses it.                                              *)

\* np.linspace(start, stop, num), num >= 2
Linspace(start, stop, num) ==
  [i \in 1..num |-> RAdd(start, RDiv(RMul(RInt(i - 1), RSub(stop, start)),
                                     RInt(num - 1)))]

\* np.asarray of a sequence of integers, as floats
AsArray(s) == [i \in DOMAIN s |-> RInt(s[i])]

\* the (mn, mx) an integer bin count is spread over: the range when one is
\* given, else the sample's extent ((0, 1) for an empty sample), widened by
\* a half on each side when the two coincide
HistExtent(a, r) ==
  LET mn == IF r # <<>> THEN r[1] ELSE IF a = <<>> THEN 0 ELSE SeqMin(a)
      mx == IF r # <<>> THEN r[2] ELSE IF a = <<>> THEN 1 ELSE SeqMax(a)
  IN  IF mn = mx THEN <<Rat(2 * mn - 1, 2), Rat(2 * mx + 1, 2)>>
      ELSE <<RInt(mn), RInt(mx)>>

\* Faulty variant: one edge too many for an integer bin count.
HistEdges_OffByOne(a, b, r) ==
  IF b.kind = "int"
  THEN Linspace(HistExtent(a, r)[1], HistExtent(a, r)[2], b.val + 2)
  ELSE IF b.kind = "seq" THEN AsArray(b.val) ELSE b.val

\* the bin edges np.histogram uses: linspace(mn, mx, bins + 1) for a bin
\* count, the given edges (range ignored) for a sequence
HistEdges(a, b, r) ==
  IF b.kind = "int"
  THEN Linspace(HistExtent(a, r)[1], HistExtent(a, r)[2], b.val + 1)
  ELSE IF b.kind = "seq" THEN AsArray(b.val) ELSE b.val

\* value v falls in bin i of edges e: [e[i], e[i+1]), the last bin closed
InBin(v, e, i) ==
  /\ RLe(e[i], RInt(v))
  /\ IF i = Len(e) - 1 THEN RLe(RInt(v), e[i + 1]) ELSE RLt(RInt(v), e[i + 1])

\* the per-bin counts of sample a over edges e
HistCounts(a, e) ==
  [i \in 1..(Len(e) - 1) |->
     RInt(Cardinality({k \in DOMAIN a : InBin(a[k], e, i)}))]

Diff(e) == [i \in 1..(Len(e) - 1) |-> RSub(e[i + 1], e[i])]

\* normed=True: n / (n * db).sum()
Normed(n, e) ==
  LET db == Diff(e)
      tot == RSum([i \in DOMAIN n |-> RMul(n[i], db[i])])
  IN  [i \in DOMAIN n |-> RDiv(n[i], tot)]

HistFail == [ok |-> FALSE, vals |-> <<>>, edges |-> <<>>]

\* np.histogram(a, bins, range, **kwargs) -> (vals, edges), or its failure
np_histogram(a, b, r, kw) ==
  IF r # <<>> /\ r[1] > r[2] THEN HistFail
  ELSE IF b.kind = "int" /\ b.val < 1 THEN HistFail
  ELSE LET e == HistEdges(a, b, r)
           n == HistCounts(a, e)
       IN  IF \E i \in 1..(Len(e) - 1) : RLt(e[i + 1], e[i]) THEN HistFail
           ELSE [ok |-> TRUE,
                 vals |-> IF "normed" \in DOMAIN kw /\ kw["normed"]
                          THEN Normed(n, e) ELSE n,
                 edges |-> e]

----------------------------------------------------------------------------
(* astroML's resolvers, as lines 54-60 use them: each maps a sample to the *)
(* set of edge arrays it may return (the data-dependent width or block     *)
(* choice is left open); the empty set is the resolver's own failure, on a *)
(* sample without two distinct values.                                     *)

Degenerate(s) == Cardinality(Distinct(s)) < 2

\* the bin widths a width rule may come up with
BinWidths == {Rat(1, 2), Rat(1, 1), Rat(3, 2)}

\* Faulty variant: the bin count rounded down.
WidthRuleEdges_Floor(s, dx) ==
  LET mn == SeqMin(s)
      mx == SeqMax(s)
      f == RFloor(RDiv(RInt(mx - mn), dx))
      Nbins == IF f < 1 THEN 1 ELSE f
  IN  [i \in 1..(Nbins + 1) |-> RAdd(RInt(mn), RMul(dx, RInt(i - 1)))]

\* Nbins = max(1, ceil((max - min) / dx)); bins = min + dx * arange(Nbins + 1)
WidthRuleEdges(s, dx) ==
  LET mn == SeqMin(s)
      mx == SeqMax(s)
      c == RCeil(RDiv(RInt(mx - mn), dx))
      Nbins == IF c < 1 THEN 1 ELSE c
  IN  [i \in 1..(Nbins + 1) |-> RAdd(RInt(mn), RMul(dx, RInt(i - 1)))]

scotts_bin_width(s) ==
  IF Degenerate(s) THEN {} ELSE {WidthRuleEdges(s, dx) : dx \in BinWidths}

freedman_bin_width(s) ==
  IF Degenerate(s) THEN {} ELSE {WidthRuleEdges(s, dx) : dx \in BinWidths}

\* linspace(min, max, M + 1) for the M the rule settles on
knuth_bin_width(s) ==
  IF Degenerate(s) THEN {}
  ELSE {Linspace(RInt(SeqMin(s)), RInt(SeqMax(s)), M + 1) : M \in 1..MaxBins}

\* the first value, a choice of the midpoints between neighbouring distinct
\* values (the change points), the last value
bayesian_blocks(s) ==
  IF Degenerate(s) THEN {}
  ELSE LET t == SortSet(Distinct(s))
           N == Len(t)
           Mid(i) == Rat(t[i] + t[i + 1], 2)
       IN  {LET c == SortSet(S)
            IN  <<RInt(t[1])>> \o [j \in DOMAIN c |-> Mid(c[j])] \o <<RInt(t[N])>>
            : S \in SUBSET (1..(N - 1))}

----------------------------------------------------------------------------
(* mass_function: the statements of lines 41-76.                           *)

\* Faulty variant: the caller's value left in place.
NormedOverride_Keep(kw) == kw

\* lines 41-42: a `normed` key is kept and its value set to False
NormedOverride(kw) ==
  IF "normed" \in DOMAIN kw THEN [kw EXCEPT !["normed"] = FALSE] ELSE kw

NormedWarning == [level |-> "WARNING",
                  msg |-> <<"Turned of normed kwarg in mass_function()">>]

\* lines 45-48: the names that make a range filter the sample
RuleNames == {"blocks", "knuth", "knuths", "scott", "scotts",
              "freedman", "freedmans"}

ShouldFilter(r, b) == r # <<>> /\ b.kind = "str" /\ b.val \in RuleNames

\* Faulty variant: the upper endpoint left out.
Masked_OpenHigh(s, r) == SelectSeq(s, LAMBDA v : v >= r[1] /\ v < r[2])

\* line 49: mass[(mass >= range[0]) & (mass <= range[1])], a new array
Masked(s, r) == SelectSeq(s, LAMBDA v : v >= r[1] /\ v <= r[2])

\* Faulty variant: the selection written back into the array `mass` names.
FilterAssign_InPlace(h, m, r) ==
  [heap |-> [h EXCEPT ![m] = Masked(h[m], r)], mass |-> m]

\* line 49: the name `mass` is rebound to the new array
FilterAssign(h, m, r) ==
  [heap |-> h @@ ("m1" :> Masked(h[m], r)), mass |-> "m1"]

\* Faulty variant: no else branch, the last rule taking every other string.
Dispatch_NoElse(code) ==
  IF code \in {"blocks"} THEN "bayesian_blocks"
  ELSE IF code \in {"knuth", "knuths"} THEN "knuth_bin_width"
  ELSE IF code \in {"scott", "scotts"} THEN "scotts_bin_width"
  ELSE "freedman_bin_width"

\* Faulty variant: only the spellings the docstring lists.
Dispatch_DocNames(code) ==
  IF code \in {"blocks"} THEN "bayesian_blocks"
  ELSE IF code \in {"knuth"} THEN "knuth_bin_width"
  ELSE IF code \in {"scott"} THEN "scotts_bin_width"
  ELSE IF code \in {"freedman"} THEN "freedman_bin_width"
  ELSE "unrecognized"

\* lines 53-62: the resolver a string is dispatched to
Dispatch(code) ==
  IF code \in {"blocks"} THEN "bayesian_blocks"
  ELSE IF code \in {"knuth", "knuths"} THEN "knuth_bin_width"
  ELSE IF code \in {"scott", "scotts"} THEN "scotts_bin_width"
  ELSE IF code \in {"freedman", "freedmans"} THEN "freedman_bin_width"
  ELSE "unrecognized"

\* lines 54-60: the edges the resolver may return for sample s
Resolve(fn, s) ==
  IF fn = "bayesian_blocks" THEN bayesian_blocks(s)
  ELSE IF fn = "knuth_bin_width" THEN knuth_bin_width(s)
  ELSE IF fn = "scotts_bin_width" THEN scotts_bin_width(s)
  ELSE freedman_bin_width(s)

\* line 52, line 63
InfoStart(code) == [level |-> "INFO",
                    msg |-> <<"Calculating bin widths using `", code, "' method...">>]
InfoDone == [level |-> "INFO", msg |-> <<"...done">>]

\* line 62: "unrecognized bin code: '%s'" % bins
ValueError(code) == [type |-> "ValueError",
                     msg |-> <<"unrecognized bin code: '", code, "'">>]

NoException == [type |-> "none", msg |-> <<>>]

\* line 66
Width(e) == RSub(e[2], e[1])

\* Faulty variant: width/2 on integers, rounding down.
Radius_IntDiv(w) == RInt(RFloor(RDiv(w, RInt(2))))

\* line 67
Radius(w) == RDiv(w, RInt(2))

\* line 68: edges[:-1] + radius
Centers(e, radius) == [i \in 1..(Len(e) - 1) |-> RAdd(e[i], radius)]

\* Faulty variant: the counts divided by the volume and the radius.
Density_ByRadius(v, vol, w) ==
  [i \in DOMAIN v |-> RDiv(v[i], RMul(RInt(vol), Radius(w)))]

\* line 69: vals.astype(float) / (volume * width)
Density(v, vol, w) == [i \in DOMAIN v |-> RDiv(v[i], RMul(RInt(vol), w))]

\* line 71: np.dstack((centers, vals)).squeeze(): shape (n, 2), or (2,) for n = 1
DstackSqueeze(c, v) ==
  IF Len(c) = 1 THEN [shape |-> <<2>>, data |-> <<c[1], v[1]>>]
  ELSE [shape |-> <<Len(c), 2>>, data |-> [i \in DOMAIN c |-> <<c[i], v[i]>>]]

NoArray == [shape |-> <<0>>, data |-> <<>>]
NoReturn == [kind |-> "none", mf |-> NoArray, edges |-> <<>>]

----------------------------------------------------------------------------
(* The arguments a call is explored with.                                  *)

NonDecreasing(s) == \A i \in 1..(Len(s) - 1) : s[i] <= s[i + 1]

Samples ==
  {s \in UNION {[1..n -> 1..MaxVal] : n \in 0..MaxLen} : NonDecreasing(s)}
    \cup {<<3, 1, 2>>, <<2, 1>>, <<1, 1, 1, 2, 2, 3, 4, 5, 5, 5, 5>>}

BinSpecs ==
  {[kind |-> "int", val |-> n] : n \in (1..MaxBins) \cup {5}}
    \cup {[kind |-> "seq", val |-> e] :
            e \in {<<1, 3>>, <<1, 2, 3>>, <<0, 1, 3>>, <<0, 2, 3>>}}
    \cup {[kind |-> "str", val |-> c] : c \in RuleNames \cup {"block", "bogus"}}

Ranges == {<<>>, <<1, 2>>, <<2, 2>>, <<0, 4>>, <<3, 1>>}

Volumes == {1, 2}

KwOf(flag) ==
  IF flag = "absent" THEN <<>>
  ELSE IF flag = "True" THEN [normed |-> TRUE] ELSE [normed |-> FALSE]

----------------------------------------------------------------------------

Init ==
  /\ \E s \in Samples, b \in BinSpecs, r \in Ranges,
        flag \in {"absent", "True", "False"} :
       /\ heap = [m0 |-> s, b0 |-> b, r0 |-> r, k0 |-> KwOf(flag)]
       /\ kwargs = KwOf(flag)
  /\ mass = "m0"
  /\ bins = "b0"
  /\ volume \in Volumes
  /\ return_edges \in BOOLEAN
  /\ pc = "L41"
  /\ log = <<>>
  /\ calls = <<>>
  /\ vals = <<>>
  /\ edges = <<>>
  /\ width = RInt(0)
  /\ centers = <<>>
  /\ ret = NoReturn
  /\ exc = NoException

range == heap["r0"]

\* lines 41-43
CheckNormed ==
  /\ pc = "L41"
  /\ kwargs' = NormedOverride(kwargs)
  /\ log' = IF "normed" \in DOMAIN kwargs THEN Append(log, NormedWarning) ELSE log
  /\ pc' = "L45"
  /\ UNCHANGED <<heap, mass, bins, volume, return_edges, calls,
                 vals, edges, width, centers, ret, exc>>

\* lines 45-49
FilterRange ==
  /\ pc = "L45"
  /\ IF ShouldFilter(range, heap[bins])
     THEN LET f == FilterAssign(heap, mass, range)
          IN  heap' = f.heap /\ mass' = f.mass
     ELSE UNCHANGED <<heap, mass>>
  /\ pc' = "L51"
  /\ UNCHANGED <<bins, kwargs, volume, return_edges, log, calls,
                 vals, edges, width, centers, ret, exc>>

\* lines 51-63
ResolveBins ==
  /\ pc = "L51"
  /\ IF heap[bins].kind = "str"
     THEN LET code == heap[bins].val
              fn == Dispatch(code)
              outs == Resolve(fn, heap[mass])
          IN  IF fn = "unrecognized"
              THEN /\ exc' = ValueError(code)
                   /\ pc' = "raised"
                   /\ log' = Append(log, InfoStart(code))
                   /\ UNCHANGED <<heap, bins, calls>>
              ELSE /\ calls' = Append(calls, [fn |-> fn, a |-> heap[mass], r |-> <<>>])
                   /\ IF outs = {}
                      THEN /\ exc' = [type |-> "ResolverError", msg |-> <<fn>>]
                           /\ pc' = "raised"
                           /\ log' = Append(log, InfoStart(code))
                           /\ UNCHANGED <<heap, bins>>
                      ELSE /\ \E e \in outs :
                                heap' = heap @@ ("b1" :> [kind |-> "arr", val |-> e])
                           /\ bins' = "b1"
                           /\ log' = log \o <<InfoStart(code), InfoDone>>
                           /\ pc' = "L65"
                           /\ UNCHANGED exc
     ELSE /\ pc' = "L65"
          /\ UNCHANGED <<heap, bins, calls, log, exc>>
  /\ UNCHANGED <<mass, kwargs, volume, return_edges,
                 vals, edges, width, centers, ret>>

\* line 65
Histogram ==
  /\ pc = "L65"
  /\ LET h == np_histogram(heap[mass], heap[bins], range, kwargs)
     IN  /\ calls' = Append(calls, [fn |-> "histogram", a |-> heap[mass], r |-> range])
         /\ IF h.ok
            THEN /\ vals' = h.vals
                 /\ edges' = h.edges
                 /\ pc' = "L66"
                 /\ UNCHANGED exc
            ELSE /\ exc' = [type |-> "HistogramError", msg |-> <<"histogram">>]
                 /\ pc' = "raised"
                 /\ UNCHANGED <<vals, edges>>
  /\ UNCHANGED <<heap, mass, bins, kwargs, volume, return_edges, log,
                 width, centers, ret>>

\* lines 66-69
Normalize ==
  /\ pc = "L66"
  /\ width' = Width(edges)
  /\ centers' = Centers(edges, Radius(Width(edges)))
  /\ vals' = Density(vals, volume, Width(edges))
  /\ pc' = "L71"
  /\ UNCHANGED <<heap, mass, bins, kwargs, volume, return_edges, log, calls,
                 edges, ret, exc>>

\* lines 71-76
Return ==
  /\ pc = "L71"
  /\ LET mf == DstackSqueeze(centers, vals)
     IN  ret' = IF return_edges
                THEN [kind |-> "tuple", mf |-> mf, edges |-> edges]
                ELSE [kind |-> "array", mf |-> mf, edges |-> <<>>]
  /\ pc' = "returned"
  /\ UNCHANGED <<heap, mass, bins, kwargs, volume, return_edges, log, calls,
                 vals, edges, width, centers, exc>>

Next ==
  \/ CheckNormed
  \/ FilterRange
  \/ ResolveBins
  \/ Histogram
  \/ Normalize
  \/ Return

Spec == Init /\ [][Next]_vars

----------------------------------------------------------------------------
(* What the properties below read off a state.                             *)

\* the (center, density) entries of a returned array
Rows(mf) == IF mf.shape = <<2>> THEN <<mf.data>> ELSE mf.data

\* the arguments as the caller passed them
Sample0 == heap["m0"]
Bins0 == heap["b0"]
Kwargs0 == heap["k0"]

\* the sample the call works on (filtered or not)
Working == heap[mass]

\* the seven strings sections 3 and 4.1 of the specification list
SevenNames == {"blocks", "knuth", "knuths", "scott", "scotts",
               "freedman", "freedmans"}

Named == Bins0.kind = "str" /\ Bins0.val \in SevenNames

\* the values of s within the closed interval r
Within(s, r) == SelectSeq(s, LAMBDA v : r[1] <= v /\ v <= r[2])

\* how many values of the working sample lie in bin i of `edges`, the last
\* bin taking its right edge too
CountIn(i) ==
  Cardinality({k \in DOMAIN Working :
     /\ RLe(edges[i], RInt(Working[k]))
     /\ \/ RLt(RInt(Working[k]), edges[i + 1])
        \/ i = Len(edges) - 1 /\ RInt(Working[k]) = edges[i + 1]})

----------------------------------------------------------------------------
\* C1: a returned call with an integer bin count n >= 1 and a sample of at
\* least two distinct values has exactly n (center, density) entries, and
\* the centers are strictly increasing.
C1_EntriesAndOrder ==
  (pc = "returned" /\ Bins0.kind = "int" /\ ~Degenerate(Sample0)) =>
    LET rows == Rows(ret.mf)
    IN  /\ Len(rows) = Bins0.val
        /\ \A i \in 1..(Len(rows) - 1) : RLt(rows[i][1], rows[i + 1][1])

C1_Witness ==
  /\ pc = "returned"
  /\ Bins0.kind = "int" /\ Bins0.val = 3
  /\ ~Degenerate(Sample0)
  /\ Len(Rows(ret.mf)) = 3

\* C2: in every returned result the sum over the bins of
\* density * width * volume is the number of histogrammed sample values
\* that lie within the histogrammed range [edges[0], edges[-1]].
C2_RoundTrip ==
  pc = "returned" =>
    LET rows == Rows(ret.mf)
        last == edges[Len(edges)]
    IN  RSum([i \in DOMAIN rows |-> RMul(RMul(rows[i][2], width), RInt(volume))])
          = RInt(Cardinality({k \in DOMAIN Working :
                    RLe(edges[1], RInt(Working[k])) /\ RLe(RInt(Working[k]), last)}))

C2_Witness ==
  /\ pc = "returned"
  /\ \E k \in DOMAIN Working : RLt(edges[Len(edges)], RInt(Working[k]))
  /\ \E k \in DOMAIN Working : RLe(edges[1], RInt(Working[k]))
                                 /\ RLe(RInt(Working[k]), edges[Len(edges)])
  /\ Len(edges) > 2

\* what the call returns from line 65 on when np.histogram is given the
\* options kw
ReturnWith(kw) ==
  LET h == np_histogram(Working, heap[bins], range, kw)
      w == Width(h.edges)
      mf == DstackSqueeze(Centers(h.edges, Radius(w)), Density(h.vals, volume, w))
  IN  IF return_edges
      THEN [kind |-> "tuple", mf |-> mf, edges |-> h.edges]
      ELSE [kind |-> "array", mf |-> mf, edges |-> <<>>]

Warnings == Len(SelectSeq(log, LAMBDA m : m.level = "WARNING"))

\* C3: a call given a normalization flag, whatever its value, returns what
\* the same call returns with the flag omitted (result and edges), and the
\* warning is logged in exactly the calls given the flag.
C3_NormedIgnored ==
  /\ pc # "L41" => Warnings = (IF "normed" \in DOMAIN Kwargs0 THEN 1 ELSE 0)
  /\ (pc = "returned" /\ "normed" \in DOMAIN Kwargs0) => ret = ReturnWith(<<>>)

C3_Witness ==
  /\ pc = "returned"
  /\ "normed" \in DOMAIN Kwargs0 /\ Kwargs0["normed"]
  /\ Warnings = 1
  /\ \E i \in DOMAIN Rows(ret.mf) : RLt(RInt(1), Rows(ret.mf)[i][2])

\* C4: the sample is restricted to [low, high], endpoints kept, exactly when
\* a range is given with a recognized rule name; the resolver is then called
\* on the restricted sample and the histogram on that same sample; with an
\* integer or explicit edges the sample is passed whole and the range goes
\* to the histogram step.
C4_FilterBeforeResolve ==
  LET filters == range # <<>> /\ Named
      expected == IF filters THEN Within(Sample0, range) ELSE Sample0
  IN  /\ pc \notin {"L41", "L45"} =>
           /\ (mass = "m1") <=> filters
           /\ Working = expected
      /\ \A i \in DOMAIN calls :
           /\ calls[i].a = expected
           /\ calls[i].fn = "histogram" => calls[i].r = range
           /\ calls[i].fn # "histogram" => Named /\ i = 1

C4_Witness ==
  /\ pc = "returned"
  /\ Named /\ range # <<>>
  /\ Len(calls) = 2 /\ calls[1].fn = "scotts_bin_width"
  /\ Len(calls[1].a) < Len(Sample0)
  /\ \E k \in DOMAIN calls[1].a : calls[1].a[k] = range[1]
  /\ \E k \in DOMAIN calls[1].a : calls[1].a[k] = range[2]

\* C5: a string that is no recognized rule name ends the call, with or
\* without a range, in the invalid-argument error naming the string; no
\* resolver and no histogram is called and nothing is returned.
C5_UnrecognizedRaises ==
  (Bins0.kind = "str" /\ Bins0.val \notin SevenNames) =>
    /\ calls = <<>>
    /\ ret = NoReturn
    /\ pc \in {"L41", "L45", "L51", "raised"}
    /\ pc = "raised" =>
         /\ exc.type = "ValueError"
         /\ \E i \in DOMAIN exc.msg : exc.msg[i] = Bins0.val

C5_Witness ==
  /\ pc = "raised"
  /\ Bins0.kind = "str" /\ Bins0.val = "bogus"
  /\ range # <<>>
  /\ exc.type = "ValueError"

\* the resolver each rule's spellings belong to
RuleOf(code) ==
  IF code = "blocks" THEN "bayesian_blocks"
  ELSE IF code \in {"knuth", "knuths"} THEN "knuth_bin_width"
  ELSE IF code \in {"scott", "scotts"} THEN "scotts_bin_width"
  ELSE "freedman_bin_width"

\* C6 as stated: each rule has two spellings, eight strings in all ("block"
\* beside "blocks"), and none of the eight raises the unrecognized-code error.
C6_EightNames ==
  (Bins0.kind = "str" /\ Bins0.val \in SevenNames \cup {"block"}) =>
    exc.type # "ValueError"

\* C6 amended: seven strings are recognized, "blocks" and two spellings of
\* each of the other three rules; each is dispatched to its rule's resolver
\* and never raises the unrecognized-code error, and "block" does raise it.
C6_SevenNames ==
  /\ Cardinality(SevenNames) = 7
  /\ Named =>
       /\ exc.type # "ValueError"
       /\ pc \notin {"L41", "L45", "L51"} =>
            calls # <<>> /\ calls[1].fn = RuleOf(Bins0.val)
  /\ (Bins0.kind = "str" /\ Bins0.val = "block" /\ pc \notin {"L41", "L45", "L51"}) =>
       exc.type = "ValueError"

C6_Witness ==
  /\ pc = "returned"
  /\ Bins0.kind = "str" /\ Bins0.val = "freedmans"
  /\ calls[1].fn = "freedman_bin_width"

\* C7 as stated: in every returned result each center is the midpoint of its
\* bin's own two edges and each density is the bin's count over the volume
\* times the bin's own width.
C7_OwnMidpointAndWidth ==
  pc = "returned" =>
    LET rows == Rows(ret.mf)
    IN  \A i \in DOMAIN rows :
          /\ rows[i][1] = RDiv(RAdd(edges[i], edges[i + 1]), RInt(2))
          /\ rows[i][2] = RDiv(RInt(CountIn(i)),
                               RMul(RInt(volume), RSub(edges[i + 1], edges[i])))

\* C8: no step of a call, returning or failing, changes the caller's
\* sample (same values, same order), bin specification or range; the
\* filtered sample is a new array.
C8_InputsUntouched ==
  [][/\ heap'["m0"] = heap["m0"]
     /\ heap'["b0"] = heap["b0"]
     /\ heap'["r0"] = heap["r0"]]_vars

C8_Witness ==
  /\ pc \in {"returned", "raised"}
  /\ mass = "m1"
  /\ Len(heap["m1"]) < Len(heap["m0"])
  /\ heap["m1"] # <<>>

\* every returned bin is centered and normalized with the first interval's
\* width w = edges[1] - edges[0]
FirstWidthOnly ==
  LET rows == Rows(ret.mf)
      w == RSub(edges[2], edges[1])
  IN  /\ width = w
      /\ Len(rows) = Len(edges) - 1
      /\ \A i \in DOMAIN rows :
           /\ rows[i][1] = RAdd(edges[i], RDiv(w, RInt(2)))
           /\ rows[i][2] = RDiv(RInt(CountIn(i)), RMul(RInt(volume), w))

\* edges equally spaced from the sample minimum to the sample maximum
SpacedOverSample ==
  LET n == Len(edges) - 1
      lo == RInt(SeqMin(Sample0))
      hi == RInt(SeqMax(Sample0))
  IN  /\ n = Bins0.val
      /\ edges[1] = lo /\ edges[n + 1] = hi
      /\ \A i \in 1..n : RSub(edges[i + 1], edges[i]) = RDiv(RSub(hi, lo), RInt(n))

\* the worked example of section 8
ExampleHolds ==
  (Sample0 = <<1, 1, 1, 2, 2, 3, 4, 5, 5, 5, 5>> /\ volume = 2
     /\ Bins0.kind = "int" /\ Bins0.val = 5 /\ range = <<>>) =>
    /\ edges = <<Rat(1, 1), Rat(9, 5), Rat(13, 5), Rat(17, 5), Rat(21, 5), Rat(5, 1)>>
    /\ width = Rat(4, 5)
    /\ [i \in 1..5 |-> CountIn(i)] = <<3, 2, 1, 1, 4>>
    /\ Rows(ret.mf) = << <<Rat(7, 5), Rat(15, 8)>>, <<Rat(11, 5), Rat(5, 4)>>,
                         <<Rat(3, 1), Rat(5, 8)>>, <<Rat(19, 5), Rat(5, 8)>>,
                         <<Rat(23, 5), Rat(5, 2)>> >>

\* C9 as stated: the first interval's width serves every bin, and for an
\* integer bin count with no range the edges run equally spaced from the
\* sample minimum to the sample maximum, as in the worked example.
C9_AnySample ==
  pc = "returned" =>
    /\ FirstWidthOnly
    /\ (Bins0.kind = "int" /\ range = <<>> /\ Sample0 # <<>>) => SpacedOverSample
    /\ ExampleHolds

\* C9 amended: the same, the equal spacing from minimum to maximum holding
\* for a sample of at least two distinct values, every one of which is then
\* counted (the last bin is closed on the right).
C9_FirstWidth ==
  pc = "returned" =>
    /\ FirstWidthOnly
    /\ (Bins0.kind = "int" /\ range = <<>> /\ ~Degenerate(Sample0)) =>
         /\ SpacedOverSample
         /\ CountIn(Len(edges) - 1) >= 1
         /\ RSum([i \in 1..(Len(edges) - 1) |-> RInt(CountIn(i))]) = RInt(Len(Sample0))
    /\ ExampleHolds

C9_Witness ==
  /\ pc = "returned"
  /\ Sample0 = <<1, 1, 1, 2, 2, 3, 4, 5, 5, 5, 5>> /\ volume = 2
  /\ Bins0.kind = "int" /\ Bins0.val = 5 /\ range = <<>>
  /\ Rows(ret.mf)[5] = <<Rat(23, 5), Rat(5, 2)>>

\* C10: with a range and a recognized rule name, the histogram step gives
\* the counts and edges it gives with the range left out, the edges are the
\* resolver's, and every value of the filtered sample is counted.
C10_RangeNoOp ==
  (pc = "L66" /\ range # <<>> /\ Named) =>
    LET h == np_histogram(Working, heap[bins], <<>>, kwargs)
    IN  /\ h.ok
        /\ vals = h.vals
        /\ edges = h.edges
        /\ edges = heap["b1"].val
        /\ Working = Within(Sample0, range)
        /\ RSum(vals) = RInt(Len(Working))

C10_Witness ==
  /\ pc = "L66"
  /\ range # <<>> /\ Named
  /\ Len(Working) < Len(Sample0)
  /\ Len(vals) >= 2
  /\ RSum(vals) = RInt(Len(Working))

============================================================================
